---- MODULE Spec2Model ----
(***************************************************************************)
(* Model of internal/util/K8sUtil.go: the K8sUtil facade over the cluster  *)
(* API client.  K8sUtil itself keeps no state besides its logger, so the   *)
(* state of the model is the remote cluster, the client handles built so   *)
(* far (and those of them that GetClient returned to a caller), the frame of every invocation that is between two remote requests  *)
(* and the record of the invocation that completed last.                   *)
(***************************************************************************)
EXTENDS Integers, Sequences, FiniteSets, TLC

VARIABLES cluster, clients, held, frame, done, calls, nilFor, nsCreates

vars == <<cluster, clients, held, frame, done, calls, nilFor, nsCreates>>

(***************************************************************************)
(* Bounds.                                                                 *)
(***************************************************************************)
MaxCalls == 2
NumProcs == 2

Procs == 1..NumProcs

(***************************************************************************)
(* Input domains.                                                          *)
(***************************************************************************)
Namespaces == {"default", "dev"}
CmNames == {"cm1"}
SecretNames == {"devtron-secret-test", "other"}
Usernames == {"admin", "bob"}
Passwords == {"pw1", "pw2"}
Applications == {"app-a"}
Paths == {"/data/a", "/data/b"}
Strs == {"x"}
KeyOrder == <<"a", "b">>
Keys == {KeyOrder[i] : i \in 1..Len(KeyOrder)}

GoodConfig == [Host |-> "https://k8s:6443", BearerToken |-> "tok"]
BadConfig == [Host |-> "%bad", BearerToken |-> "tok"]
Configs == {GoodConfig, BadConfig}

\* Go values handed to json.Marshal: nil, a string, a channel (which
\* encoding/json cannot encode) and map[string]interface{} of scalars.
NilVal == [t |-> "nil"]
ChanVal == [t |-> "chan"]
StrVal(s) == [t |-> "str", s |-> s]
MapVal(m) == [t |-> "map", m |-> m]
Scalars == {ChanVal} \cup {StrVal(s) : s \in Strs}
Maps == UNION {[K -> Scalars] : K \in SUBSET Keys}
MapArgs == {NilVal} \cup {MapVal(m) : m \in Maps}
AnyArgs == {NilVal, MapVal([k \in {"a"} |-> StrVal("x")])} \cup Scalars

(***************************************************************************)
(* Errors.  NoErr is Go's nil error.                                       *)
(***************************************************************************)
NoErr == "nil"
ErrNotFound == "NotFound"
ErrAlreadyExists == "AlreadyExists"
ErrForbidden == "Forbidden"
ErrInvalidHost == "InvalidHost"
ErrUnsupportedType == "UnsupportedType"
Faults == {NoErr, ErrForbidden}

MergePatchType == "application/merge-patch+json"
JSONPatchType == "application/json-patch+json"

NilRes == [kind |-> "nil"]
CoreV1 == "/api/v1"
ArgoV1alpha1 == "/apis/argoproj.io/v1alpha1"
NilClient == [owner |-> "nil", id |-> 0, host |-> "", token |-> "",
              insecure |-> FALSE, api |-> ""]
CallerClients == {[owner |-> "caller", id |-> i, host |-> GoodConfig.Host,
                   token |-> GoodConfig.BearerToken,
                   insecure |-> TRUE, api |-> CoreV1] : i \in {1, 2}}
NoObj == [name |-> "", data |-> NilVal]
EmptyMap == MapVal([k \in {} |-> NilVal])
ConfigMapArgs == {[name |-> n, data |-> MapVal([k \in {"a"} |-> StrVal("x")])] : n \in CmNames}
SecretArgs == {[name |-> n, data |-> EmptyMap] : n \in SecretNames}

(***************************************************************************)
(* encoding/json.Marshal, as a sequence of JSON tokens.                    *)
(***************************************************************************)
Quote(s) == "\"" \o s \o "\""

MarshalScalar(v) ==
    IF v.t = "nil" THEN [b |-> <<"null">>, err |-> NoErr]
    ELSE IF v.t = "str" THEN [b |-> <<Quote(v.s)>>, err |-> NoErr]
    ELSE [b |-> <<>>, err |-> ErrUnsupportedType]

RECURSIVE MarshalMembers(_, _)
\* the members of m whose keys are KeyOrder[i..], keys in sorted order
MarshalMembers(m, i) ==
    IF i > Len(KeyOrder) THEN [b |-> <<>>, err |-> NoErr, n |-> 0]
    ELSE LET rest == MarshalMembers(m, i + 1)
             k == KeyOrder[i]
         IN  IF k \notin DOMAIN m THEN rest
             ELSE LET e == MarshalScalar(m[k])
                  IN  IF e.err # NoErr THEN [b |-> <<>>, err |-> e.err, n |-> 0]
                      ELSE IF rest.err # NoErr THEN rest
                      ELSE [b |-> <<Quote(k), ":">> \o e.b
                                    \o (IF rest.n > 0 THEN <<",">> ELSE <<>>) \o rest.b,
                            err |-> NoErr, n |-> rest.n + 1]

Marshal(v) ==
    IF v.t = "map"
    THEN LET ms == MarshalMembers(v.m, 1)
         IN  IF ms.err # NoErr THEN [b |-> <<>>, err |-> ms.err]
             ELSE [b |-> <<"{">> \o ms.b \o <<"}">>, err |-> NoErr]
    ELSE MarshalScalar(v)

\* patch := &JsonPatchType{Op: "replace", Path: path, Value: data}
JsonPatchType(path, data) == [Op |-> "replace", Path |-> path, Value |-> data]

\* json.Marshal of one JsonPatchType struct: fields in declaration order
MarshalPatch(patch) ==
    LET v == Marshal(patch.Value)
    IN  IF v.err # NoErr THEN [b |-> <<>>, err |-> v.err]
        ELSE [b |-> <<"{", Quote("op"), ":", Quote(patch.Op), ",",
                      Quote("path"), ":", Quote(patch.Path), ",",
                      Quote("value"), ":">> \o v.b \o <<"}">>,
              err |-> NoErr]

RECURSIVE MarshalPatchElems(_)
\* the comma-separated elements of a []*JsonPatchType
MarshalPatchElems(patches) ==
    IF patches = <<>> THEN [b |-> <<>>, err |-> NoErr]
    ELSE LET h == MarshalPatch(Head(patches))
             t == MarshalPatchElems(Tail(patches))
         IN  IF h.err # NoErr THEN h
             ELSE IF t.err # NoErr THEN t
             ELSE [b |-> h.b \o (IF Tail(patches) = <<>> THEN <<>> ELSE <<",">>) \o t.b,
                   err |-> NoErr]

\* json.Marshal(patches): a nil slice encodes as null
MarshalPatches(patches) ==
    LET e == MarshalPatchElems(patches)
    IN  IF e.err # NoErr THEN e
        ELSE IF patches = <<>> THEN [b |-> <<"null">>, err |-> NoErr]
        ELSE [b |-> <<"[">> \o e.b \o <<"]">>, err |-> NoErr]

(***************************************************************************)
(* The remote cluster.  A request is served atomically; fault is the       *)
(* transport or authorisation failure the environment injects (NoErr for   *)
(* none), in which case the request has no effect.                         *)
(***************************************************************************)
Request(verb, resource, namespace, name, client, pt, body, obj) ==
    [verb |-> verb, resource |-> resource, namespace |-> namespace, name |-> name,
     client |-> client, pt |-> pt, body |-> body, obj |-> obj]

Reply(err, res, cl) == [err |-> err, res |-> res, cluster |-> cl]

CmKey(r) == <<r.namespace, r.name>>

ServeNamespaces(r, cl) ==
    IF r.verb = "Get"
    THEN IF r.name \in cl.namespaces
         THEN Reply(NoErr, [kind |-> "Namespace", name |-> r.name, rev |-> 1], cl)
         ELSE Reply(ErrNotFound, NilRes, cl)
    ELSE \* Create
         IF r.obj.name \in cl.namespaces
         THEN Reply(ErrAlreadyExists, NilRes, cl)
         ELSE Reply(NoErr, [kind |-> "Namespace", name |-> r.obj.name, rev |-> 1],
                    [cl EXCEPT !.namespaces = @ \cup {r.obj.name}])

ServeConfigMaps(r, cl) ==
    LET k == IF r.verb = "Update" THEN <<r.namespace, r.obj.name>> ELSE CmKey(r)
    IN  IF k \notin DOMAIN cl.configMaps THEN Reply(ErrNotFound, NilRes, cl)
        ELSE IF r.verb = "Get"
        THEN Reply(NoErr, [kind |-> "ConfigMap", name |-> k[2], rev |-> cl.configMaps[k]], cl)
        ELSE \* Update, Patch: a write gives the object its next resourceVersion
             Reply(NoErr, [kind |-> "ConfigMap", name |-> k[2], rev |-> cl.configMaps[k] + 1],
                   [cl EXCEPT !.configMaps[k] = @ + 1])

ServeSecrets(r, cl) ==
    LET k == IF r.verb = "Get" THEN <<r.namespace, r.name>> ELSE <<r.namespace, r.obj.name>>
    IN  IF r.verb = "Create"
        THEN IF k \in DOMAIN cl.secrets THEN Reply(ErrAlreadyExists, NilRes, cl)
             ELSE Reply(NoErr, [kind |-> "Secret", name |-> k[2], rev |-> 1],
                        [cl EXCEPT !.secrets = (k :> 1) @@ @])
        ELSE IF k \notin DOMAIN cl.secrets THEN Reply(ErrNotFound, NilRes, cl)
        ELSE IF r.verb = "Get"
        THEN Reply(NoErr, [kind |-> "Secret", name |-> k[2], rev |-> cl.secrets[k]], cl)
        ELSE Reply(NoErr, [kind |-> "Secret", name |-> k[2], rev |-> cl.secrets[k] + 1],
                   [cl EXCEPT !.secrets[k] = @ + 1])

ServeApplications(r, cl) ==
    LET k == <<r.namespace, r.body>>
    IN  IF k \in cl.apps THEN Reply(ErrAlreadyExists, NilRes, cl)
        ELSE Reply(NoErr, [kind |-> "Application", name |-> r.body[1], rev |-> 1],
                   [cl EXCEPT !.apps = @ \cup {k}])

Serve(r, fault, cl) ==
    IF fault # NoErr THEN Reply(fault, NilRes, cl)
    ELSE IF r.resource = "namespaces" THEN ServeNamespaces(r, cl)
    ELSE IF r.resource = "configmaps" THEN ServeConfigMaps(r, cl)
    ELSE IF r.resource = "secrets" THEN ServeSecrets(r, cl)
    ELSE ServeApplications(r, cl)

\* one remote call: the request as logged with the cluster's answer
Do(r, fault, cl) ==
    LET a == Serve(r, fault, cl)
    IN  [req |-> [verb |-> r.verb, resource |-> r.resource, namespace |-> r.namespace,
                  name |-> r.name, client |-> r.client, pt |-> r.pt, body |-> r.body,
                  obj |-> r.obj, resp |-> a.err, fault |-> fault],
         err |-> a.err, res |-> a.res, cluster |-> a.cluster]

(***************************************************************************)
(* Client construction.                                                    *)
(***************************************************************************)
\* rest: a host that does not parse as a URL or host:port is rejected
NewForConfig(cfg) == IF cfg.Host = BadConfig.Host THEN ErrInvalidHost ELSE NoErr

GetClientCached(clusterConfig, built) ==
    LET err == NewForConfig(clusterConfig)
    IN  [client |-> IF err # NoErr THEN NilClient
                    ELSE [owner |-> "layer", id |-> 1,
                          host |-> clusterConfig.Host, token |-> clusterConfig.BearerToken,
                          insecure |-> TRUE, api |-> CoreV1],
         err |-> err]

\* built: the clients this layer has constructed so far; the new one is
\* a new object, distinct from all of them
GetClient(clusterConfig, built) ==
    LET err == NewForConfig(clusterConfig)
    IN  [client |-> IF err # NoErr THEN NilClient
                    ELSE [owner |-> "layer", id |-> Cardinality(built) + 1,
                          host |-> clusterConfig.Host, token |-> clusterConfig.BearerToken,
                          insecure |-> TRUE, api |-> CoreV1],
         err |-> err]

getargoAppClient(clusterConfig, built) ==
    LET err == NewForConfig(clusterConfig)
    IN  [client |-> IF err # NoErr THEN NilClient
                    ELSE [owner |-> "layer", id |-> Cardinality(built) + 1,
                          host |-> clusterConfig.Host, token |-> clusterConfig.BearerToken,
                          insecure |-> TRUE, api |-> ArgoV1alpha1],
         err |-> err]

(***************************************************************************)
(* The handlers, as functions of their arguments, the clients built so     *)
(* far, the fault injected into each remote call and the cluster.  The     *)
(* result says how the invocation ended and what it did.                   *)
(***************************************************************************)
Return(built, reqs, res, err, cl) ==
    [built |-> built, reqs |-> reqs, status |-> "return", err |-> err, res |-> res,
     panic |-> NoErr, cluster |-> cl]

\* panic(v): the call never returns to its caller
Panic(built, reqs, v, cl) ==
    [built |-> built, reqs |-> reqs, status |-> "panic", err |-> NoErr, res |-> NilRes,
     panic |-> v, cluster |-> cl]

\* errors.IsNotFound: false for a nil error
IsNotFound(err) == err = ErrNotFound

checkIfNsExistsFoundOnNotFound(namespace, client, fault, cl) ==
    LET g == Do(Request("Get", "namespaces", "", namespace, client, "", <<>>, NoObj), fault, cl)
    IN  IF IsNotFound(g.err)
        THEN [exists |-> TRUE, err |-> NoErr, req |-> g.req, cluster |-> g.cluster]
        ELSE IF g.err # NoErr
        THEN [exists |-> FALSE, err |-> g.err, req |-> g.req, cluster |-> g.cluster]
        ELSE [exists |-> TRUE, err |-> NoErr, req |-> g.req, cluster |-> g.cluster]

checkIfNsExistsAnyErrorAbsent(namespace, client, fault, cl) ==
    LET g == Do(Request("Get", "namespaces", "", namespace, client, "", <<>>, NoObj), fault, cl)
    IN  IF g.err # NoErr
        THEN [exists |-> FALSE, err |-> NoErr, req |-> g.req, cluster |-> g.cluster]
        ELSE [exists |-> TRUE, err |-> NoErr, req |-> g.req, cluster |-> g.cluster]

checkIfNsExists(namespace, client, fault, cl) ==
    LET g == Do(Request("Get", "namespaces", "", namespace, client, "", <<>>, NoObj), fault, cl)
    IN  IF IsNotFound(g.err)
        THEN [exists |-> FALSE, err |-> NoErr, req |-> g.req, cluster |-> g.cluster]
        ELSE IF g.err # NoErr
        THEN [exists |-> FALSE, err |-> g.err, req |-> g.req, cluster |-> g.cluster]
        ELSE [exists |-> TRUE, err |-> NoErr, req |-> g.req, cluster |-> g.cluster]

createNsIgnoreExists(namespace, client, fault, cl) ==
    LET nsSpec == [name |-> namespace, data |-> NilVal]
        c == Do(Request("Create", "namespaces", "", "", client, "", <<>>, nsSpec), fault, cl)
    IN  IF c.err # NoErr /\ c.err # ErrAlreadyExists
        THEN [ns |-> NilRes, err |-> c.err, req |-> c.req, cluster |-> c.cluster]
        ELSE [ns |-> c.res, err |-> NoErr, req |-> c.req, cluster |-> c.cluster]

createNs(namespace, client, fault, cl) ==
    LET nsSpec == [name |-> namespace, data |-> NilVal]
        c == Do(Request("Create", "namespaces", "", "", client, "", <<>>, nsSpec), fault, cl)
    IN  IF c.err # NoErr
        THEN [ns |-> NilRes, err |-> c.err, req |-> c.req, cluster |-> c.cluster]
        ELSE [ns |-> c.res, err |-> NoErr, req |-> c.req, cluster |-> c.cluster]

CreateNsIfNotExistsCheckAlwaysCreate(namespace, clusterConfig, built, fault, cl) ==
    LET gc == GetClient(clusterConfig, built)
    IN  IF gc.err # NoErr THEN Return({}, <<>>, NilRes, gc.err, cl)
        ELSE LET e == checkIfNsExists(namespace, gc.client, fault, cl)
             IN  IF e.err # NoErr THEN Return({gc.client}, <<e.req>>, NilRes, e.err, e.cluster)
                 ELSE [Return({gc.client}, <<e.req>>, NilRes, NoErr, e.cluster)
                         EXCEPT !.status = "create"]

\* lines 58-68: up to the decision to create.  status "create" means the
\* invocation goes on to createNs (a second remote request).
CreateNsIfNotExistsCheck(namespace, clusterConfig, built, fault, cl) ==
    LET gc == GetClient(clusterConfig, built)
    IN  IF gc.err # NoErr THEN Return({}, <<>>, NilRes, gc.err, cl)
        ELSE LET e == checkIfNsExists(namespace, gc.client, fault, cl)
             IN  IF e.err # NoErr THEN Return({gc.client}, <<e.req>>, NilRes, e.err, e.cluster)
                 ELSE IF e.exists THEN Return({gc.client}, <<e.req>>, NilRes, NoErr, e.cluster)
                 ELSE [Return({gc.client}, <<e.req>>, NilRes, NoErr, e.cluster)
                         EXCEPT !.status = "create"]

\* lines 69-71
CreateNsIfNotExistsCreate(fr, fault, cl) ==
    LET c == createNs(fr.namespace, fr.client, fault, cl)
    IN  Return(fr.built, fr.reqs \o <<c.req>>, NilRes, c.err, c.cluster)

CreateArgoApplication(namespace, application, clusterConfig, built, fault, cl) ==
    LET gc == getargoAppClient(clusterConfig, built)
    IN  IF gc.err # NoErr THEN Return({}, <<>>, NilRes, gc.err, cl)
        ELSE LET c == Do(Request("Post", "applications", namespace, "", gc.client, "",
                                 <<application>>, NoObj), fault, cl)
             IN  Return({gc.client}, <<c.req>>, NilRes, c.err, c.cluster)

GetConfigMapRetry(namespace, name, clusterConfig, built, fault, cl) ==
    LET gc == GetClient(clusterConfig, built)
    IN  IF gc.err # NoErr THEN Return({}, <<>>, NilRes, gc.err, cl)
        ELSE LET r == Request("Get", "configmaps", namespace, name, gc.client, "",
                              <<>>, NoObj)
                 c == Do(r, fault, cl)
                 d == Do(r, fault, c.cluster)
             IN  IF c.err = NoErr THEN Return({gc.client}, <<c.req>>, c.res, NoErr, c.cluster)
                 ELSE IF d.err # NoErr
                 THEN Return({gc.client}, <<c.req, d.req>>, NilRes, d.err, d.cluster)
                 ELSE Return({gc.client}, <<c.req, d.req>>, d.res, NoErr, d.cluster)

GetConfigMap(namespace, name, clusterConfig, built, fault, cl) ==
    LET gc == GetClient(clusterConfig, built)
    IN  IF gc.err # NoErr THEN Return({}, <<>>, NilRes, gc.err, cl)
        ELSE LET c == Do(Request("Get", "configmaps", namespace, name, gc.client, "",
                                 <<>>, NoObj), fault, cl)
             IN  IF c.err # NoErr THEN Return({gc.client}, <<c.req>>, NilRes, c.err, c.cluster)
                 ELSE Return({gc.client}, <<c.req>>, c.res, NoErr, c.cluster)

GetConfigMapFast(namespace, name, client, fault, cl) ==
    LET c == Do(Request("Get", "configmaps", namespace, name, client, "", <<>>, NoObj),
                fault, cl)
    IN  IF c.err # NoErr THEN Return({}, <<c.req>>, NilRes, c.err, c.cluster)
        ELSE Return({}, <<c.req>>, c.res, NoErr, c.cluster)

UpdateConfigMap(namespace, cm, clusterConfig, built, fault, cl) ==
    LET gc == GetClient(clusterConfig, built)
    IN  IF gc.err # NoErr THEN Return({}, <<>>, NilRes, gc.err, cl)
        ELSE LET c == Do(Request("Update", "configmaps", namespace, "", gc.client, "",
                                 <<>>, cm), fault, cl)
             IN  IF c.err # NoErr THEN Return({gc.client}, <<c.req>>, NilRes, c.err, c.cluster)
                 ELSE Return({gc.client}, <<c.req>>, c.res, NoErr, c.cluster)

UpdateConfigMapFast(namespace, cm, client, fault, cl) ==
    LET c == Do(Request("Update", "configmaps", namespace, "", client, "", <<>>, cm),
                fault, cl)
    IN  IF c.err # NoErr THEN Return({}, <<c.req>>, NilRes, c.err, c.cluster)
        ELSE Return({}, <<c.req>>, c.res, NoErr, c.cluster)

PatchConfigMapWrapped(namespace, clusterConfig, name, data, built, fault, cl) ==
    LET gc == GetClient(clusterConfig, built)
        b == Marshal(data)
    IN  IF gc.err # NoErr THEN Return({}, <<>>, NilRes, gc.err, cl)
        ELSE IF b.err # NoErr THEN Panic({gc.client}, <<>>, b.err, cl)
        ELSE LET c == Do(Request("Patch", "configmaps", namespace, name, gc.client,
                                 MergePatchType,
                                 <<"{", Quote("data"), ":">> \o b.b \o <<"}">>, NoObj),
                         fault, cl)
             IN  IF c.err # NoErr THEN Return({gc.client}, <<c.req>>, NilRes, c.err, c.cluster)
                 ELSE Return({gc.client}, <<c.req>>, c.res, NoErr, c.cluster)

PatchConfigMapReturnsMarshalError(namespace, clusterConfig, name, data, built, fault, cl) ==
    LET gc == GetClient(clusterConfig, built)
        b == Marshal(data)
    IN  IF gc.err # NoErr THEN Return({}, <<>>, NilRes, gc.err, cl)
        ELSE IF b.err # NoErr THEN Return({gc.client}, <<>>, NilRes, b.err, cl)
        ELSE LET c == Do(Request("Patch", "configmaps", namespace, name, gc.client,
                                 MergePatchType, b.b, NoObj), fault, cl)
             IN  IF c.err # NoErr THEN Return({gc.client}, <<c.req>>, NilRes, c.err, c.cluster)
                 ELSE Return({gc.client}, <<c.req>>, c.res, NoErr, c.cluster)

PatchConfigMap(namespace, clusterConfig, name, data, built, fault, cl) ==
    LET gc == GetClient(clusterConfig, built)
        b == Marshal(data)
    IN  IF gc.err # NoErr THEN Return({}, <<>>, NilRes, gc.err, cl)
        ELSE IF b.err # NoErr THEN Panic({gc.client}, <<>>, b.err, cl)
        ELSE LET c == Do(Request("Patch", "configmaps", namespace, name, gc.client,
                                 MergePatchType, b.b, NoObj), fault, cl)
             IN  IF c.err # NoErr THEN Return({gc.client}, <<c.req>>, NilRes, c.err, c.cluster)
                 ELSE Return({gc.client}, <<c.req>>, c.res, NoErr, c.cluster)

PatchConfigMapJsonTypeTwoOps(namespace, clusterConfig, name, data, path, built, fault, cl) ==
    LET gc == GetClient(clusterConfig, built)
        patch == JsonPatchType(path, data)
        patches == <<patch, patch>>
        b == MarshalPatches(patches)
    IN  IF gc.err # NoErr THEN Return({}, <<>>, NilRes, gc.err, cl)
        ELSE IF b.err # NoErr THEN Panic({gc.client}, <<>>, b.err, cl)
        ELSE LET c == Do(Request("Patch", "configmaps", namespace, name, gc.client,
                                 JSONPatchType, b.b, NoObj), fault, cl)
             IN  IF c.err # NoErr THEN Return({gc.client}, <<c.req>>, NilRes, c.err, c.cluster)
                 ELSE Return({gc.client}, <<c.req>>, c.res, NoErr, c.cluster)

PatchConfigMapJsonType(namespace, clusterConfig, name, data, path, built, fault, cl) ==
    LET gc == GetClient(clusterConfig, built)
        patch == JsonPatchType(path, data)
        patches == <<>> \o <<patch>>
        b == MarshalPatches(patches)
    IN  IF gc.err # NoErr THEN Return({}, <<>>, NilRes, gc.err, cl)
        ELSE IF b.err # NoErr THEN Panic({gc.client}, <<>>, b.err, cl)
        ELSE LET c == Do(Request("Patch", "configmaps", namespace, name, gc.client,
                                 JSONPatchType, b.b, NoObj), fault, cl)
             IN  IF c.err # NoErr THEN Return({gc.client}, <<c.req>>, NilRes, c.err, c.cluster)
                 ELSE Return({gc.client}, <<c.req>>, c.res, NoErr, c.cluster)

GetSecretFast(namespace, name, client, fault, cl) ==
    LET c == Do(Request("Get", "secrets", namespace, name, client, "", <<>>, NoObj),
                fault, cl)
    IN  IF c.err # NoErr THEN Return({}, <<c.req>>, NilRes, c.err, c.cluster)
        ELSE Return({}, <<c.req>>, c.res, NoErr, c.cluster)

CreateSecretFastNamedByUser(namespace, username, password, client, fault, cl) ==
    LET secret == [name |-> username, data |-> EmptyMap]
        c == Do(Request("Create", "secrets", namespace, "", client, "", <<>>, secret),
                fault, cl)
    IN  IF c.err # NoErr THEN Return({}, <<c.req>>, NilRes, c.err, c.cluster)
        ELSE Return({}, <<c.req>>, c.res, NoErr, c.cluster)

CreateSecretFast(namespace, username, password, client, fault, cl) ==
    LET secret == [name |-> "devtron-secret-test", data |-> EmptyMap]
        c == Do(Request("Create", "secrets", namespace, "", client, "", <<>>, secret),
                fault, cl)
    IN  IF c.err # NoErr THEN Return({}, <<c.req>>, NilRes, c.err, c.cluster)
        ELSE Return({}, <<c.req>>, c.res, NoErr, c.cluster)

UpdateSecretFast(namespace, cm, client, fault, cl) ==
    LET c == Do(Request("Update", "secrets", namespace, "", client, "", <<>>, cm),
                fault, cl)
    IN  IF c.err # NoErr THEN Return({}, <<c.req>>, NilRes, c.err, c.cluster)
        ELSE Return({}, <<c.req>>, c.res, NoErr, c.cluster)

(***************************************************************************)
(* The state machine: callers invoke the handlers concurrently.  Only      *)
(* CreateNsIfNotExists issues two remote requests, so only it has a frame  *)
(* that other invocations can interleave with.                             *)
(***************************************************************************)
Idle == [pc |-> "idle"]
NoInvocation == [op |-> "none"]

\* the environment: the faults the cluster may inject, the configurations
\* callers pass, and whether callers run one invocation at a time
Env == [faults |-> Faults, configs |-> Configs, seq |-> FALSE]
SeqEnv == [faults |-> {NoErr}, configs |-> {GoodConfig}, seq |-> TRUE]

Init ==
    /\ cluster = [namespaces |-> {"default"},
                  configMaps |-> (<<"default", "cm1">> :> 1),
                  secrets |-> (<<"default", "other">> :> 1),
                  apps |-> {}]
    /\ clients = {}
    /\ frame = [p \in Procs |-> Idle]
    /\ done = NoInvocation
    /\ calls = 0
    /\ nilFor = {}
    /\ nsCreates = [n \in Namespaces |-> 0]
    /\ held = {}

\* a fault can only hit a request, and none is issued without a client
FaultsFor(E, clusterConfig) ==
    IF NewForConfig(clusterConfig) = NoErr THEN E.faults ELSE {NoErr}

CanStart(p, E) ==
    /\ frame[p].pc = "idle"
    /\ calls < MaxCalls
    /\ E.seq => \A q \in Procs : frame[q].pc = "idle"

\* successful namespace Creates among the requests rs
CreatedNs(rs, n) ==
    Cardinality({i \in 1..Len(rs) : /\ rs[i].resource = "namespaces"
                                    /\ rs[i].verb = "Create"
                                    /\ rs[i].resp = NoErr
                                    /\ rs[i].obj.name = n})

\* the invocation ends with outcome out; known are the clients that existed
\* when it began and newReqs the requests of this step
Complete(op, args, known, out, newReqs) ==
    /\ done' = [op |-> op, args |-> args, known |-> known, built |-> out.built,
                reqs |-> out.reqs,
                status |-> out.status, err |-> out.err, res |-> out.res,
                panic |-> out.panic]
    /\ cluster' = out.cluster
    /\ nilFor' = IF op = "CreateNsIfNotExists" /\ out.status = "return" /\ out.err = NoErr
                 THEN nilFor \cup {args.namespace} ELSE nilFor
    /\ nsCreates' = [n \in Namespaces |-> nsCreates[n] + CreatedNs(newReqs, n)]
    /\ held' = IF op = "GetClient" THEN held \cup out.built ELSE held

\* an invocation made of a single step, run by any caller that is free
Single(E, op, args, out) ==
    /\ Complete(op, args, clients, out, out.reqs)
    /\ clients' = clients \cup out.built
    /\ calls' = calls + 1
    /\ UNCHANGED frame

\* the result of a direct call of the exported GetClient: (client, err)
GetClientCall(clusterConfig, built, cl) ==
    LET gc == GetClient(clusterConfig, built)
    IN  IF gc.err # NoErr THEN Return({}, <<>>, NilRes, gc.err, cl)
        ELSE Return({gc.client}, <<>>, [kind |-> "Client", client |-> gc.client],
                    NoErr, cl)

\* a caller builds a client to pass to the Fast operations later
CallGetClient(E) ==
    /\ \E p \in Procs : CanStart(p, E)
    /\ \E clusterConfig \in E.configs :
         Single(E, "GetClient", [clusterConfig |-> clusterConfig],
                GetClientCall(clusterConfig, clients, cluster))

CallCreateNsIfNotExists(p, E) ==
    /\ CanStart(p, E)
    /\ \E namespace \in Namespaces, clusterConfig \in E.configs :
       \E fault \in FaultsFor(E, clusterConfig) :
         LET out == CreateNsIfNotExistsCheck(namespace, clusterConfig, clients, fault, cluster)
             args == [namespace |-> namespace, clusterConfig |-> clusterConfig]
         IN  IF out.status = "create"
             THEN /\ frame' = [frame EXCEPT ![p] =
                                 [pc |-> "createNs", namespace |-> namespace,
                                  clusterConfig |-> clusterConfig,
                                  client |-> CHOOSE c \in out.built : TRUE,
                                  known |-> clients, built |-> out.built,
                                  reqs |-> out.reqs]]
                  /\ cluster' = out.cluster
                  /\ clients' = clients \cup out.built
                  /\ calls' = calls + 1
                  /\ UNCHANGED <<done, nilFor, nsCreates, held>>
             ELSE Single(E, "CreateNsIfNotExists", args, out)

\* the createNs call of an invocation that found the namespace absent
StepCreateNs(p, E) ==
    /\ frame[p].pc = "createNs"
    /\ \E fault \in E.faults :
         LET out == CreateNsIfNotExistsCreate(frame[p], fault, cluster)
             args == [namespace |-> frame[p].namespace,
                      clusterConfig |-> frame[p].clusterConfig]
         IN  /\ Complete("CreateNsIfNotExists", args, frame[p].known, out,
                         <<out.reqs[Len(out.reqs)]>>)
             /\ frame' = [frame EXCEPT ![p] = Idle]
             /\ UNCHANGED <<clients, calls>>

CallCreateArgoApplication(E) ==
    /\ \E p \in Procs : CanStart(p, E)
    /\ \E namespace \in Namespaces, application \in Applications,
          clusterConfig \in E.configs :
       \E fault \in FaultsFor(E, clusterConfig) :
         Single(E, "CreateArgoApplication",
                [namespace |-> namespace, application |-> application,
                 clusterConfig |-> clusterConfig],
                CreateArgoApplication(namespace, application, clusterConfig,
                                      clients, fault, cluster))

CallGetConfigMap(E) ==
    /\ \E p \in Procs : CanStart(p, E)
    /\ \E namespace \in Namespaces, name \in CmNames,
          clusterConfig \in E.configs :
       \E fault \in FaultsFor(E, clusterConfig) :
         Single(E, "GetConfigMap",
                [namespace |-> namespace, name |-> name, clusterConfig |-> clusterConfig],
                GetConfigMap(namespace, name, clusterConfig, clients, fault, cluster))

CallGetConfigMapFast(E) ==
    /\ \E p \in Procs : CanStart(p, E)
    /\ \E namespace \in Namespaces, name \in CmNames,
          client \in CallerClients \cup held, fault \in E.faults :
         Single(E, "GetConfigMapFast",
                [namespace |-> namespace, name |-> name, client |-> client],
                GetConfigMapFast(namespace, name, client, fault, cluster))

CallUpdateConfigMap(E) ==
    /\ \E p \in Procs : CanStart(p, E)
    /\ \E namespace \in Namespaces, cm \in ConfigMapArgs,
          clusterConfig \in E.configs :
       \E fault \in FaultsFor(E, clusterConfig) :
         Single(E, "UpdateConfigMap",
                [namespace |-> namespace, cm |-> cm, clusterConfig |-> clusterConfig],
                UpdateConfigMap(namespace, cm, clusterConfig, clients, fault, cluster))

CallUpdateConfigMapFast(E) ==
    /\ \E p \in Procs : CanStart(p, E)
    /\ \E namespace \in Namespaces, cm \in ConfigMapArgs,
          client \in CallerClients \cup held, fault \in E.faults :
         Single(E, "UpdateConfigMapFast",
                [namespace |-> namespace, cm |-> cm, client |-> client],
                UpdateConfigMapFast(namespace, cm, client, fault, cluster))

CallPatchConfigMap(E) ==
    /\ \E p \in Procs : CanStart(p, E)
    /\ \E namespace \in Namespaces, name \in CmNames, data \in MapArgs,
          clusterConfig \in E.configs :
       \E fault \in FaultsFor(E, clusterConfig) :
         Single(E, "PatchConfigMap",
                [namespace |-> namespace, name |-> name, data |-> data,
                 clusterConfig |-> clusterConfig],
                PatchConfigMap(namespace, clusterConfig, name, data,
                               clients, fault, cluster))

CallPatchConfigMapJsonType(E) ==
    /\ \E p \in Procs : CanStart(p, E)
    /\ \E namespace \in Namespaces, name \in CmNames, data \in AnyArgs, path \in Paths,
          clusterConfig \in E.configs :
       \E fault \in FaultsFor(E, clusterConfig) :
         Single(E, "PatchConfigMapJsonType",
                [namespace |-> namespace, name |-> name, data |-> data, path |-> path,
                 clusterConfig |-> clusterConfig],
                PatchConfigMapJsonType(namespace, clusterConfig, name, data, path,
                                       clients, fault, cluster))

CallGetSecretFast(E) ==
    /\ \E p \in Procs : CanStart(p, E)
    /\ \E namespace \in Namespaces, name \in SecretNames,
          client \in CallerClients \cup held, fault \in E.faults :
         Single(E, "GetSecretFast",
                [namespace |-> namespace, name |-> name, client |-> client],
                GetSecretFast(namespace, name, client, fault, cluster))

CallCreateSecretFast(E) ==
    /\ \E p \in Procs : CanStart(p, E)
    /\ \E namespace \in Namespaces, username \in Usernames, password \in Passwords,
          client \in CallerClients \cup held, fault \in E.faults :
         Single(E, "CreateSecretFast",
                [namespace |-> namespace, username |-> username, password |-> password,
                 client |-> client],
                CreateSecretFast(namespace, username, password, client, fault, cluster))

CallUpdateSecretFast(E) ==
    /\ \E p \in Procs : CanStart(p, E)
    /\ \E namespace \in Namespaces, cm \in SecretArgs,
          client \in CallerClients \cup held, fault \in E.faults :
         Single(E, "UpdateSecretFast",
                [namespace |-> namespace, cm |-> cm, client |-> client],
                UpdateSecretFast(namespace, cm, client, fault, cluster))

Next ==
    \/ CallGetClient(Env)
    \/ \E p \in Procs : CallCreateNsIfNotExists(p, Env)
    \/ \E p \in Procs : StepCreateNs(p, Env)
    \/ CallCreateArgoApplication(Env)
    \/ CallGetConfigMap(Env)
    \/ CallGetConfigMapFast(Env)
    \/ CallUpdateConfigMap(Env)
    \/ CallUpdateConfigMapFast(Env)
    \/ CallPatchConfigMap(Env)
    \/ CallPatchConfigMapJsonType(Env)
    \/ CallGetSecretFast(Env)
    \/ CallCreateSecretFast(Env)
    \/ CallUpdateSecretFast(Env)

Spec == Init /\ [][Next]_vars

\* callers that run one invocation at a time against a cluster that injects
\* no failure, with a configuration that a client can be built from
NextSeq ==
    \/ CallGetClient(SeqEnv)
    \/ \E p \in Procs : CallCreateNsIfNotExists(p, SeqEnv)
    \/ \E p \in Procs : StepCreateNs(p, SeqEnv)
    \/ CallCreateArgoApplication(SeqEnv)
    \/ CallGetConfigMap(SeqEnv)
    \/ CallGetConfigMapFast(SeqEnv)
    \/ CallUpdateConfigMap(SeqEnv)
    \/ CallUpdateConfigMapFast(SeqEnv)
    \/ CallPatchConfigMap(SeqEnv)
    \/ CallPatchConfigMapJsonType(SeqEnv)
    \/ CallGetSecretFast(SeqEnv)
    \/ CallCreateSecretFast(SeqEnv)
    \/ CallUpdateSecretFast(SeqEnv)

SpecSeq == Init /\ [][NextSeq]_vars

(***************************************************************************)
(* Vocabulary of the properties.                                           *)
(***************************************************************************)
FastOps == {"GetConfigMapFast", "UpdateConfigMapFast", "GetSecretFast",
            "CreateSecretFast", "UpdateSecretFast"}
ClientBuildingOps == {"GetConfigMap", "UpdateConfigMap", "PatchConfigMap",
                      "PatchConfigMapJsonType", "CreateNsIfNotExists"}
PatchOps == {"PatchConfigMap", "PatchConfigMapJsonType"}

\* indexes of the requests of the last invocation with this verb and resource
Issued(verb, resource) ==
    {i \in 1..Len(done.reqs) : done.reqs[i].verb = verb /\ done.reqs[i].resource = resource}

\* a client could be built from the configuration the caller passed
ConstructionOk(inv) == inv.args.clusterConfig.Host # BadConfig.Host

\* encoding/json can encode v: no channel in it
Encodable(v) ==
    /\ v.t # "chan"
    /\ v.t = "map" => \A k \in DOMAIN v.m : v.m[k].t # "chan"

\* the one-token JSON text toks stands for the scalar v
RepresentsScalar(tok, v) ==
    \/ v.t = "nil" /\ tok = "null"
    \/ v.t = "str" /\ tok = "\"" \o v.s \o "\""

\* the JSON text toks stands for the value v (members of an object in any order)
Represents(toks, v) ==
    IF v.t = "map"
    THEN LET n == Cardinality(DOMAIN v.m)
         IN  /\ Len(toks) = (IF n = 0 THEN 2 ELSE 4 * n + 1)
             /\ toks[1] = "{"
             /\ toks[Len(toks)] = "}"
             /\ \A i \in 1..n :
                  /\ toks[4 * i - 1] = ":"
                  /\ i < n => toks[4 * i + 1] = ","
             /\ \A k \in DOMAIN v.m :
                  \E i \in 1..n : /\ toks[4 * i - 2] = "\"" \o k \o "\""
                                  /\ RepresentsScalar(toks[4 * i], v.m[k])
    ELSE Len(toks) = 1 /\ RepresentsScalar(toks[1], v)

\* C1: in a CreateNsIfNotExists invocation whose client was built, a Get that
\* reports not-found is followed by exactly one Create for that namespace whose
\* error (or nil) is returned; a Get that finds it is followed by no Create
\* and nil is returned.
C1_CreateOnlyWhenNotFound ==
    (done.op = "CreateNsIfNotExists" /\ ConstructionOk(done)) =>
        /\ Issued("Get", "namespaces") = {1}
        /\ done.reqs[1].name = done.args.namespace
        /\ done.reqs[1].resp = ErrNotFound =>
             /\ Cardinality(Issued("Create", "namespaces")) = 1
             /\ Len(done.reqs) = 2
             /\ done.reqs[2].verb = "Create"
             /\ done.reqs[2].obj.name = done.args.namespace
             /\ done.status = "return"
             /\ done.err = done.reqs[2].resp
        /\ done.reqs[1].resp = NoErr =>
             /\ Issued("Create", "namespaces") = {}
             /\ done.status = "return"
             /\ done.err = NoErr

C1_Witness ==
    /\ done.op = "CreateNsIfNotExists"
    /\ Len(done.reqs) = 2
    /\ done.reqs[1].resp = ErrNotFound
    /\ done.reqs[2].resp = NoErr

\* C2: checkIfNsExists answers (false, nil) to a not-found Get, (false, err) to
\* any other error err and (true, nil) to a Get without error; so an invocation
\* whose Get fails with an error other than not-found returns that error and
\* issues no Create.
C2_ExistenceClassification ==
    /\ \A namespace \in Namespaces, client \in CallerClients, fault \in Faults :
         LET e == checkIfNsExists(namespace, client, fault, cluster)
         IN  /\ e.req.resp = ErrNotFound => (~e.exists /\ e.err = NoErr)
             /\ e.req.resp \notin {ErrNotFound, NoErr} => (~e.exists /\ e.err = e.req.resp)
             /\ e.req.resp = NoErr => (e.exists /\ e.err = NoErr)
    /\ (/\ done.op = "CreateNsIfNotExists"
        /\ Len(done.reqs) >= 1
        /\ done.reqs[1].resp \notin {ErrNotFound, NoErr}) =>
            /\ done.status = "return"
            /\ done.err = done.reqs[1].resp
            /\ Issued("Create", "namespaces") = {}

C2_Witness ==
    /\ done.op = "CreateNsIfNotExists"
    /\ Len(done.reqs) = 1
    /\ done.reqs[1].resp = ErrForbidden
    /\ done.args.namespace \notin cluster.namespaces

\* C3: when the client is built and the value can be encoded,
\* PatchConfigMapJsonType issues exactly one Patch of type JSON Patch against
\* the named config map, whose body is a list of exactly one operation with
\* op "replace", the given path and the given value.
C3_SingleReplaceOperation ==
    (/\ done.op = "PatchConfigMapJsonType"
     /\ ConstructionOk(done)
     /\ Encodable(done.args.data)) =>
        /\ Len(done.reqs) = 1
        /\ LET r == done.reqs[1]
               n == Len(r.body)
           IN  /\ r.verb = "Patch"
               /\ r.resource = "configmaps"
               /\ r.namespace = done.args.namespace
               /\ r.name = done.args.name
               /\ r.pt = JSONPatchType
               /\ n >= 15
               /\ SubSeq(r.body, 1, 12) =
                    <<"[", "{", "\"op\"", ":", "\"replace\"", ",", "\"path\"", ":",
                      "\"" \o done.args.path \o "\"", ",", "\"value\"", ":">>
               /\ Represents(SubSeq(r.body, 13, n - 2), done.args.data)
               /\ SubSeq(r.body, n - 1, n) = <<"}", "]">>

C3_Witness ==
    /\ done.op = "PatchConfigMapJsonType"
    /\ done.args.data.t = "map"
    /\ done.args.path = "/data/b"
    /\ Len(done.reqs) = 1
    /\ done.reqs[1].resp = NoErr

\* C4: when the client is built and the mapping can be encoded, PatchConfigMap
\* issues exactly one Patch of type Merge Patch against the named config map,
\* whose body is the JSON encoding of the mapping, nothing added or removed.
C4_MergePatchBodyIsData ==
    (/\ done.op = "PatchConfigMap"
     /\ ConstructionOk(done)
     /\ Encodable(done.args.data)) =>
        /\ Len(done.reqs) = 1
        /\ LET r == done.reqs[1]
           IN  /\ r.verb = "Patch"
               /\ r.resource = "configmaps"
               /\ r.namespace = done.args.namespace
               /\ r.name = done.args.name
               /\ r.pt = MergePatchType
               /\ r.pt # JSONPatchType
               /\ Represents(r.body, done.args.data)

C4_Witness ==
    /\ done.op = "PatchConfigMap"
    /\ done.args.data.t = "map"
    /\ DOMAIN done.args.data.m = Keys
    /\ Len(done.reqs) = 1
    /\ done.reqs[1].resp = NoErr

\* the secret object a CreateSecretFast invocation sent to the cluster
SecretSent(inv) == inv.reqs[1].obj

\* a step in which one single-request invocation ran from call to completion
SingleStep == calls' = calls + 1 /\ frame' = frame

\* C5: whatever the username and password, CreateSecretFast issues one
\* Secrets(namespace).Create of the secret named "devtron-secret-test" with an
\* empty payload, and two calls that differ only in username and password send
\* the same secret.
C5_SecretIgnoresCredentials ==
    [][(SingleStep /\ done'.op = "CreateSecretFast") =>
          /\ Len(done'.reqs) = 1
          /\ done'.reqs[1].verb = "Create"
          /\ done'.reqs[1].resource = "secrets"
          /\ done'.reqs[1].namespace = done'.args.namespace
          /\ SecretSent(done').name = "devtron-secret-test"
          /\ SecretSent(done').data.t = "map"
          /\ DOMAIN SecretSent(done').data.m = {}
          /\ (/\ done.op = "CreateSecretFast"
              /\ done.args.namespace = done'.args.namespace
              /\ done.args.client = done'.args.client) =>
                 SecretSent(done') = SecretSent(done)]_vars

C5_Witness ==
    /\ done.op = "CreateSecretFast"
    /\ done.args.username = "bob"
    /\ done.args.password = "pw2"
    /\ done.reqs[1].resp = ErrAlreadyExists

\* C6: a Fast operation builds no client and sends every request through the
\* client its caller supplied; GetConfigMap, UpdateConfigMap, PatchConfigMap,
\* PatchConfigMapJsonType and CreateNsIfNotExists build one new client per
\* invocation, never one that an earlier invocation built or that a direct
\* GetClient call returned to a caller, and send their requests through it.
C6_ClientProvenance ==
    /\ done.op \in FastOps =>
         /\ done.built = {}
         /\ Len(done.reqs) = 1
         /\ \A i \in 1..Len(done.reqs) : done.reqs[i].client = done.args.client
    /\ done.op \in ClientBuildingOps =>
         /\ ConstructionOk(done) => Cardinality(done.built) = 1
         /\ done.built \cap done.known = {}
         /\ \A c \in done.built : c.owner = "layer"
         /\ \A i \in 1..Len(done.reqs) : done.reqs[i].client \in done.built
         /\ \A i \in 1..Len(done.reqs) : done.reqs[i].client \notin held

C6_Witness ==
    /\ done.op \in ClientBuildingOps
    /\ done.known # {}
    /\ done.built # {}
    /\ done.reqs # <<>>

\* C7: in PatchConfigMap and PatchConfigMapJsonType, when the client was built
\* and the body cannot be serialized, the invocation panics: nothing is
\* returned, no Patch is issued and the cluster is left as it was; when the
\* client cannot be built the construction error is returned and nothing panics.
C7_SerializationFailureAborts ==
    [][(SingleStep /\ done'.op \in PatchOps) =>
          /\ (ConstructionOk(done') /\ ~Encodable(done'.args.data)) =>
               /\ done'.status = "panic"
               /\ done'.panic = ErrUnsupportedType
               /\ done'.reqs = <<>>
               /\ cluster' = cluster
          /\ ~ConstructionOk(done') =>
               /\ done'.status = "return"
               /\ done'.err = ErrInvalidHost
               /\ done'.res = NilRes
               /\ done'.reqs = <<>>]_vars

C7_Witness ==
    /\ done.op = "PatchConfigMap"
    /\ done.status = "panic"
    /\ done.args.data.t = "map"
    /\ <<done.args.namespace, done.args.name>> \in DOMAIN cluster.configMaps

\* the requests of the last invocation: every kind at most once, none after
\* a request that failed (a not-found answer to the existence check of
\* CreateNsIfNotExists means "absent" and is followed by the Create)
SingleAttempt ==
    /\ \A i, j \in 1..Len(done.reqs) :
         (i # j) => <<done.reqs[i].verb, done.reqs[i].resource>>
                      # <<done.reqs[j].verb, done.reqs[j].resource>>
    /\ \A i \in 1..Len(done.reqs) :
         (i < Len(done.reqs)) =>
             \/ done.reqs[i].resp = NoErr
             \/ /\ done.op = "CreateNsIfNotExists"
                /\ i = 1
                /\ done.reqs[i].resp = ErrNotFound

\* construction or the last remote request of the last invocation failed
ConstructionFailed ==
    "clusterConfig" \in DOMAIN done.args /\ ~ConstructionOk(done)
RequestFailed ==
    done.reqs # <<>> /\ done.reqs[Len(done.reqs)].resp # NoErr
        /\ ~(done.op = "CreateNsIfNotExists" /\ Len(done.reqs) = 1
               /\ done.reqs[1].resp = ErrNotFound)
SerializationFailed ==
    done.op \in PatchOps /\ ~ConstructionFailed /\ ~Encodable(done.args.data)

FailFast ==
    /\ ConstructionFailed =>
         /\ done.reqs = <<>>
         /\ done.status = "return"
         /\ done.err = ErrInvalidHost
         /\ done.res = NilRes
    /\ RequestFailed =>
         /\ done.status = "return"
         /\ done.err = done.reqs[Len(done.reqs)].resp
         /\ done.res = NilRes

\* C8 as stated: every operation is single-attempt and fail-fast, and whenever
\* a step of it fails (construction, serialization of a patch body, a remote
\* request) it stops and returns exactly that step's error with a nil resource.
C8_Original ==
    done.op # "none" =>
        /\ SingleAttempt
        /\ FailFast
        /\ SerializationFailed =>
             /\ done.status = "return"
             /\ done.err = ErrUnsupportedType
             /\ done.res = NilRes

\* C8 amended: every operation is single-attempt; a failed client construction
\* issues no request; and whenever client construction or a remote request
\* fails the operation stops and returns exactly that error with a nil
\* resource.  A serialization failure of a patch body is not returned.
C8_FailFastOnConstructionAndRequests ==
    done.op # "none" =>
        /\ SingleAttempt
        /\ FailFast
        /\ SerializationFailed => (done.status = "panic" /\ done.reqs = <<>>)

C8_Witness ==
    /\ done.op = "GetConfigMap"
    /\ Len(done.reqs) = 1
    /\ done.reqs[1].resp = ErrForbidden
    /\ done.err = ErrForbidden

\* C9: with callers running one at a time and no failure, once an invocation
\* of CreateNsIfNotExists for N has returned nil every later invocation for N
\* issues no Create, returns nil and leaves the set of namespaces as it was.
C9_Idempotent ==
    [][(calls' = calls + 1) =>
          /\ \A p \in Procs :
               (frame'[p] # frame[p]) => frame'[p].namespace \notin nilFor
          /\ (/\ frame' = frame
              /\ done'.op = "CreateNsIfNotExists"
              /\ done'.args.namespace \in nilFor) =>
                 /\ done'.status = "return"
                 /\ done'.err = NoErr
                 /\ \A i \in 1..Len(done'.reqs) : done'.reqs[i].verb # "Create"
                 /\ cluster'.namespaces = cluster.namespaces]_vars

C9_Witness ==
    /\ done.op = "CreateNsIfNotExists"
    /\ done.args.namespace = "dev"
    /\ "dev" \in nilFor
    /\ nsCreates["dev"] = 1
    /\ Len(done.reqs) = 1
    /\ done.reqs[1].resp = NoErr

\* C10: concurrent invocations of CreateNsIfNotExists for one namespace: at
\* most one Create of it succeeds, an invocation whose Create is rejected
\* because the namespace already exists returns that error and not nil, and
\* an invocation that returned nil leaves the namespace existing.
C10_RaceOnCreate ==
    /\ \A n \in Namespaces : nsCreates[n] <= 1
    /\ nsCreates["default"] = 0
    /\ done.op = "CreateNsIfNotExists" =>
         /\ (Len(done.reqs) = 2 /\ done.reqs[2].resp = ErrAlreadyExists) =>
              (done.status = "return" /\ done.err = ErrAlreadyExists)
         /\ (done.status = "return" /\ done.err = NoErr) =>
              done.args.namespace \in cluster.namespaces

\* two invocations saw "dev" absent and issued a Create; this one lost
C10_Witness ==
    /\ done.op = "CreateNsIfNotExists"
    /\ done.args.namespace = "dev"
    /\ Len(done.reqs) = 2
    /\ done.reqs[1].resp = ErrNotFound
    /\ done.reqs[2].resp = ErrAlreadyExists
    /\ nsCreates["dev"] = 1
====
